---- MODULE Spec2Model ----
(***************************************************************************)
(* Fake-quantization layers of                                             *)
(* python/paddle/fluid/contrib/slim/quantization/imperative/quant_nn.py.   *)
(*                                                                         *)
(* The model follows the dygraph (eager) branch of every forward(): in     *)
(* that branch the call to core.ops.<kernel> computes and writes its       *)
(* outputs before forward() returns.  Tensors are records                  *)
(* [shape, data] with row-major data.  Input elements are integers; every  *)
(* computed value (scale, accum, state, output element) is an exact        *)
(* rational <<n, d>> in lowest terms with d > 0, so float32 rounding of    *)
(* the arithmetic itself is abstracted away.  Python's None is <<>>, and   *)
(* an optional integer n is <<n>>.                                         *)
(***************************************************************************)
EXTENDS Integers, Sequences, FiniteSets, TLC

VARIABLES
    layer,      \* the layer object built by the latest constructor call, or NoLayer
    ctor,       \* the latest constructor call: its name and arguments
    input,      \* argument of the latest forward call
    ret,        \* value returned by the latest forward call
    out_scale,  \* variable the latest forward bound to the kernel's OutScale
    raised,     \* exception raised by the latest call, "" if none
    calls       \* number of forward calls made

vars == <<layer, ctor, input, ret, out_scale, raised, calls>>

----------------------------------------------------------------------------
(* Bounds of the model *)

MaxCalls == 3
MaxAbs == 2
MaxLen == 1

----------------------------------------------------------------------------
(* Exact rational arithmetic *)

None == <<>>

Abs(n) == IF n < 0 THEN -n ELSE n

RECURSIVE GCD(_, _)
GCD(a, b) == IF b = 0 THEN a ELSE GCD(b, a % b)

Rat(n, d) ==
    LET g == GCD(Abs(n), Abs(d))
        s == IF d < 0 THEN -1 ELSE 1
    IN  <<(s * n) \div g, (s * d) \div g>>

Zero == <<0, 1>>
One == <<1, 1>>
R(n) == <<n, 1>>

(* The operations cancel common factors before they multiply, to keep the  *)
(* intermediate integers small.                                            *)
RAdd(a, b) ==
    LET g == GCD(a[2], b[2])
    IN  Rat(a[1] * (b[2] \div g) + b[1] * (a[2] \div g), (a[2] \div g) * b[2])
RSub(a, b) == RAdd(a, <<-b[1], b[2]>>)
RMul(a, b) ==
    LET g1 == GCD(Abs(a[1]), b[2])
        g2 == GCD(Abs(b[1]), a[2])
    IN  Rat((a[1] \div g1) * (b[1] \div g2), (a[2] \div g2) * (b[2] \div g1))
RDiv(a, b) == RMul(a, IF b[1] < 0 THEN <<-b[2], -b[1]>> ELSE <<b[2], b[1]>>)
RLe(a, b) ==
    LET g == GCD(a[2], b[2])
    IN  a[1] * (b[2] \div g) <= b[1] * (a[2] \div g)
RLt(a, b) == ~RLe(b, a)
RAbs(a) == <<Abs(a[1]), a[2]>>
RNeg(a) == <<-a[1], a[2]>>
RMin(a, b) == IF RLe(a, b) THEN a ELSE b
RMax(a, b) == IF RLe(a, b) THEN b ELSE a

RECURSIVE Pow2(_)
Pow2(n) == IF n = 0 THEN 1 ELSE 2 * Pow2(n - 1)

(* round(): nearest integer, ties away from zero *)
Round(a) ==
    IF a[1] >= 0 THEN (2 * a[1] + a[2]) \div (2 * a[2])
    ELSE -((2 * (-a[1]) + a[2]) \div (2 * a[2]))

----------------------------------------------------------------------------
(* Tensors *)

Tensor(shape, data) == [shape |-> shape, data |-> data]

RECURSIVE Numel(_)
Numel(shape) == IF shape = <<>> THEN 1 ELSE Head(shape) * Numel(Tail(shape))

SeqsOf(S, n) == [1..n -> S]

(* Variant: the maximum is taken of the elements, not of their magnitudes *)
MaxAbsOf_signed(data) ==
    CHOOSE m \in {data[i] : i \in DOMAIN data} :
        \A i \in DOMAIN data : RLe(data[i], m)

(* max(abs(x)) over the elements of a non-empty tensor *)
MaxAbsOf(data) ==
    LET S == {RAbs(data[i]) : i \in DOMAIN data}
    IN  CHOOSE m \in S : \A y \in S : RLe(y, m)

(* index along quant_axis of the element at row-major position p (1-based) *)
ChannelOf(p, shape, quant_axis) ==
    LET stride == Numel(SubSeq(shape, quant_axis + 2, Len(shape)))
    IN  ((p - 1) \div stride) % shape[quant_axis + 1]

----------------------------------------------------------------------------
(* Operator kernels behind core.ops.*                                      *)

(* range = 2^(bit_length-1) - 1 *)
BinCnt(bit_length) == Pow2(bit_length - 1) - 1

(* Variant without the zero-scale guard: 0/0 yields NaN, written <<0, 0>> *)
ClipAndFakeQuantDequant_unguarded(x, s, bit_length) ==
    IF s = Zero THEN <<0, 0>>
    ELSE LET bin == R(BinCnt(bit_length))
             t   == RMax(RNeg(One), RMin(One, RDiv(x, s)))
             q   == R(Round(RMul(t, bin)))
         IN  RDiv(RMul(q, s), bin)

(* One element of the fake-quantize transform:                             *)
(*   round(clamp(x / scale, -1, 1) * range) * scale / range,               *)
(* defined as 0 when scale is 0.                                           *)
ClipAndFakeQuantDequant(x, s, bit_length) ==
    IF s = Zero THEN Zero
    ELSE LET bin == R(BinCnt(bit_length))
             t   == RMax(RNeg(One), RMin(One, RDiv(x, s)))
             q   == R(Round(RMul(t, bin)))
         IN  RDiv(RMul(q, s), bin)

(* scale = max(abs(X)); Out = transform of X by that scale *)
fake_quantize_dequantize_abs_max(X, bit_length) ==
    LET scale == MaxAbsOf(X.data)
    IN  [Out      |-> [p \in DOMAIN X.data |->
                          ClipAndFakeQuantDequant(X.data[p], scale, bit_length)],
         OutScale |-> <<scale>>]

(* scale[i] = max(abs(X)) over the elements whose index along quant_axis   *)
(* is i; every element is transformed by the scale of its channel          *)
fake_channel_wise_quantize_dequantize_abs_max(X, bit_length, quant_axis) ==
    LET n     == X.shape[quant_axis + 1]
        chan(i) == {p \in DOMAIN X.data : ChannelOf(p, X.shape, quant_axis) = i - 1}
        scale == [i \in 1..n |->
                     MaxAbsOf([p \in chan(i) |-> X.data[p]])]
    IN  [Out      |-> [p \in DOMAIN X.data |->
                          ClipAndFakeQuantDequant(X.data[p],
                              scale[ChannelOf(p, X.shape, quant_axis) + 1],
                              bit_length)],
         OutScale |-> scale]

(* is_test: transform by InScale, nothing else written (None).             *)
(* otherwise: accum = rate*accum + max(abs(X)); state = rate*state + 1;    *)
(* scale = accum / state; transform by the new scale.                      *)
fake_quantize_dequantize_moving_average_abs_max(X, InScale, InAccum, InState, moving_rate, bit_length, is_test) ==
    IF is_test
    THEN [Out      |-> [p \in DOMAIN X.data |->
                           ClipAndFakeQuantDequant(X.data[p], InScale[1], bit_length)],
          OutScale |-> None, OutState |-> None, OutAccum |-> None]
    ELSE LET cur   == MaxAbsOf(X.data)
             accum == RAdd(RMul(moving_rate, InAccum[1]), cur)
             state == RAdd(RMul(moving_rate, InState[1]), One)
             scale == RDiv(accum, state)
         IN  [Out      |-> [p \in DOMAIN X.data |->
                               ClipAndFakeQuantDequant(X.data[p], scale, bit_length)],
              OutScale |-> <<scale>>, OutState |-> <<state>>, OutAccum |-> <<accum>>]

(* Same moving-average update, no transform *)
moving_average_abs_max_scale(X, InAccum, InState, moving_rate, is_test) ==
    IF is_test
    THEN [OutScale |-> None, OutState |-> None, OutAccum |-> None]
    ELSE LET cur   == MaxAbsOf(X.data)
             accum == RAdd(RMul(moving_rate, InAccum[1]), cur)
             state == RAdd(RMul(moving_rate, InState[1]), One)
         IN  [OutScale |-> <<RDiv(accum, state)>>,
              OutState |-> <<state>>, OutAccum |-> <<accum>>]

(* An operator output is written in place into the variable bound to it;   *)
(* an output the kernel did not produce, or one bound to None, writes      *)
(* nothing.                                                                *)
Store(var, value) == IF var = None \/ value = None THEN var ELSE value

(* Truth value of a one-element dygraph variable used as a condition:      *)
(* None is false, otherwise true iff every element is > 0.                 *)
Truth(var) == var # None /\ \A i \in DOMAIN var : RLt(Zero, var[i])

(* create_parameter(shape=[n], initializer=Constant(c)); a shape without   *)
(* a size cannot be created.                                               *)
CanCreateParameter(n) == n # None
create_parameter(n, c) == [i \in 1..n[1] |-> c]

----------------------------------------------------------------------------
(* The layers.  A layer object is a record of its attributes; cls names    *)
(* its class.  Every forward returns [self, out, out_scale]: the layer     *)
(* after the call, the returned tensor, and the variable the kernel wrote  *)
(* its OutScale into.                                                      *)

NoLayer == [cls |-> "None"]
NoTensor == [shape |-> <<0>>, data |-> <<>>]
NoVar == [persistable |-> FALSE, val |-> None]

Ok(obj) == [raised |-> "", obj |-> obj]
Raise(e) == [raised |-> e, obj |-> NoLayer]

(* _varbase_creator(..., persistable=False): a new, empty variable *)
_varbase_creator(shape) == [shape |-> shape, data |-> None]

(* Variant: the accumulator starts from 0 *)
FakeQuantMovingAverage__init__accum0(moving_rate, quant_bits) ==
    Ok([cls          |-> "FakeQuantMovingAverage",
        training     |-> TRUE,
        _moving_rate |-> moving_rate,
        _quant_bits  |-> quant_bits,
        _scale       |-> create_parameter(<<1>>, Rat(1, 1000)),
        _state       |-> create_parameter(<<1>>, One),
        _accum       |-> create_parameter(<<1>>, Zero)])

FakeQuantMovingAverage__init__(moving_rate, quant_bits) ==
    Ok([cls          |-> "FakeQuantMovingAverage",
        training     |-> TRUE,
        _moving_rate |-> moving_rate,
        _quant_bits  |-> quant_bits,
        _scale       |-> create_parameter(<<1>>, Rat(1, 1000)),
        _state       |-> create_parameter(<<1>>, One),
        _accum       |-> create_parameter(<<1>>, One)])

(* Variant: accum and state handed to the kernel in each other's place *)
FakeQuantMovingAverage_forward_swapped(self, x) ==
    LET is_test   == ~self.training
        quant_out == _varbase_creator(x.shape)
        state     == IF self.training THEN self._state ELSE None
        accum     == IF self.training THEN self._accum ELSE None
        r == fake_quantize_dequantize_moving_average_abs_max(
                 x, self._scale, state, accum,
                 self._moving_rate, self._quant_bits, is_test)
        after == [self EXCEPT
                     !._scale = Store(@, r.OutScale),
                     !._state = IF self.training THEN Store(state, r.OutState) ELSE @,
                     !._accum = IF self.training THEN Store(accum, r.OutAccum) ELSE @]
    IN  [self      |-> after,
         out       |-> [quant_out EXCEPT !.data = r.Out],
         out_scale |-> [persistable |-> TRUE, val |-> after._scale]]

(* Variant: the training flag is not consulted *)
FakeQuantMovingAverage_forward_always_train(self, x) ==
    LET quant_out == _varbase_creator(x.shape)
        r == fake_quantize_dequantize_moving_average_abs_max(
                 x, self._scale, self._accum, self._state,
                 self._moving_rate, self._quant_bits, FALSE)
        after == [self EXCEPT
                     !._scale = Store(@, r.OutScale),
                     !._state = Store(@, r.OutState),
                     !._accum = Store(@, r.OutAccum)]
    IN  [self      |-> after,
         out       |-> [quant_out EXCEPT !.data = r.Out],
         out_scale |-> [persistable |-> TRUE, val |-> after._scale]]

(* Variant: bit_length 8 handed to the kernel whatever quant_bits is *)
FakeQuantMovingAverage_forward_bits8(self, x) ==
    LET is_test   == ~self.training
        quant_out == _varbase_creator(x.shape)
        state     == IF self.training THEN self._state ELSE None
        accum     == IF self.training THEN self._accum ELSE None
        r == fake_quantize_dequantize_moving_average_abs_max(
                 x, self._scale, accum, state,
                 self._moving_rate, 8, is_test)
        after == [self EXCEPT
                     !._scale = Store(@, r.OutScale),
                     !._state = IF self.training THEN Store(state, r.OutState) ELSE @,
                     !._accum = IF self.training THEN Store(accum, r.OutAccum) ELSE @]
    IN  [self      |-> after,
         out       |-> [quant_out EXCEPT !.data = r.Out],
         out_scale |-> [persistable |-> TRUE, val |-> after._scale]]

FakeQuantMovingAverage_forward(self, x) ==
    LET is_test   == ~self.training
        quant_out == _varbase_creator(x.shape)
        state     == IF self.training THEN self._state ELSE None
        accum     == IF self.training THEN self._accum ELSE None
        r == fake_quantize_dequantize_moving_average_abs_max(
                 x, self._scale, accum, state,
                 self._moving_rate, self._quant_bits, is_test)
        after == [self EXCEPT
                     !._scale = Store(@, r.OutScale),
                     !._state = IF self.training THEN Store(state, r.OutState) ELSE @,
                     !._accum = IF self.training THEN Store(accum, r.OutAccum) ELSE @]
    IN  [self      |-> after,
         out       |-> [quant_out EXCEPT !.data = r.Out],
         out_scale |-> [persistable |-> TRUE, val |-> after._scale]]

FakeQuantAbsMax__init__(quant_bits, quant_on_weight) ==
    Ok([cls         |-> "FakeQuantAbsMax",
        training    |-> TRUE,
        _quant_bits |-> quant_bits,
        _scale      |-> IF quant_on_weight
                        THEN create_parameter(<<1>>, Zero)
                        ELSE None])

(* Variant: the quantize-only kernel is called, Out holds integer levels *)
FakeQuantAbsMax_forward_quant_only(self, x) ==
    LET quant_out == _varbase_creator(x.shape)
        slot      == Truth(self._scale)
        scale     == MaxAbsOf(x.data)
        bin       == R(BinCnt(self._quant_bits))
        Out == [p \in DOMAIN x.data |->
                   IF scale = Zero THEN Zero
                   ELSE R(Round(RMul(RDiv(x.data[p], scale), bin)))]
    IN  [self      |-> IF slot THEN [self EXCEPT !._scale = <<scale>>] ELSE self,
         out       |-> [quant_out EXCEPT !.data = Out],
         out_scale |-> [persistable |-> slot, val |-> <<scale>>]]

(* Variant: the persisted scale is read back and kept as a running maximum *)
FakeQuantAbsMax_forward_running_max(self, x) ==
    LET quant_out == _varbase_creator(x.shape)
        slot      == self._scale # None
        cur       == MaxAbsOf(x.data)
        scale     == IF slot THEN RMax(self._scale[1], cur) ELSE cur
    IN  [self      |-> IF slot THEN [self EXCEPT !._scale = <<scale>>] ELSE self,
         out       |-> [quant_out EXCEPT !.data =
                           [p \in DOMAIN x.data |->
                               ClipAndFakeQuantDequant(x.data[p], scale,
                                                       self._quant_bits)]],
         out_scale |-> [persistable |-> slot, val |-> <<scale>>]]

FakeQuantAbsMax_forward(self, x) ==
    LET quant_out == _varbase_creator(x.shape)
        slot      == Truth(self._scale)
        r == fake_quantize_dequantize_abs_max(x, self._quant_bits)
    IN  [self      |-> IF slot THEN [self EXCEPT !._scale = Store(@, r.OutScale)]
                       ELSE self,
         out       |-> [quant_out EXCEPT !.data = r.Out],
         out_scale |-> [persistable |-> slot, val |-> r.OutScale]]

(* Variant: quant_on_weight is not asserted *)
FakeChannelWiseQuantDequantAbsMax__init__unasserted(channel_num, quant_bits, quant_axis, quant_on_weight) ==
    IF quant_on_weight /\ ~CanCreateParameter(channel_num)
    THEN Raise("ConfigurationError")
    ELSE Ok([cls          |-> "FakeChannelWiseQuantDequantAbsMax",
             training     |-> TRUE,
             _quant_bits  |-> quant_bits,
             _quant_axis  |-> quant_axis,
             _channel_num |-> channel_num,
             _scale       |-> IF quant_on_weight
                              THEN create_parameter(channel_num, Zero)
                              ELSE None])

FakeChannelWiseQuantDequantAbsMax__init__(channel_num, quant_bits, quant_axis, quant_on_weight) ==
    IF ~quant_on_weight THEN Raise("AssertionError")
    ELSE IF ~CanCreateParameter(channel_num) THEN Raise("ConfigurationError")
    ELSE Ok([cls          |-> "FakeChannelWiseQuantDequantAbsMax",
             training     |-> TRUE,
             _quant_bits  |-> quant_bits,
             _quant_axis  |-> quant_axis,
             _channel_num |-> channel_num,
             _scale       |-> create_parameter(channel_num, Zero)])

(* Variant: quant_axis 0 handed to the kernel whatever _quant_axis is *)
FakeChannelWiseQuantDequantAbsMax_forward_axis0(self, x) ==
    LET quant_out == _varbase_creator(x.shape)
        slot      == self._scale # None
        r == fake_channel_wise_quantize_dequantize_abs_max(
                 x, self._quant_bits, 0)
    IN  [self      |-> IF slot THEN [self EXCEPT !._scale = Store(@, r.OutScale)]
                       ELSE self,
         out       |-> [quant_out EXCEPT !.data = r.Out],
         out_scale |-> [persistable |-> slot, val |-> r.OutScale]]

FakeChannelWiseQuantDequantAbsMax_forward(self, x) ==
    LET quant_out == _varbase_creator(x.shape)
        slot      == self._scale # None
        r == fake_channel_wise_quantize_dequantize_abs_max(
                 x, self._quant_bits, self._quant_axis)
    IN  [self      |-> IF slot THEN [self EXCEPT !._scale = Store(@, r.OutScale)]
                       ELSE self,
         out       |-> [quant_out EXCEPT !.data = r.Out],
         out_scale |-> [persistable |-> slot, val |-> r.OutScale]]

MovingAverageAbsMaxScale__init__(moving_rate) ==
    Ok([cls          |-> "MovingAverageAbsMaxScale",
        training     |-> TRUE,
        _moving_rate |-> moving_rate,
        _scale       |-> create_parameter(<<1>>, One),
        _state       |-> create_parameter(<<1>>, One),
        _accum       |-> create_parameter(<<1>>, One)])

MovingAverageAbsMaxScale_forward(self, x) ==
    LET is_test == ~self.training
        state   == IF self.training THEN self._state ELSE None
        accum   == IF self.training THEN self._accum ELSE None
        r == moving_average_abs_max_scale(x, accum, state,
                                          self._moving_rate, is_test)
        after == [self EXCEPT
                     !._scale = Store(@, r.OutScale),
                     !._state = IF self.training THEN Store(state, r.OutState) ELSE @,
                     !._accum = IF self.training THEN Store(accum, r.OutAccum) ELSE @]
    IN  [self      |-> after,
         out       |-> Tensor(<<1>>, after._scale),
         out_scale |-> [persistable |-> TRUE, val |-> after._scale]]

----------------------------------------------------------------------------
(* Factory and wrappers *)

Get(kwargs, key, default) ==
    IF key \in DOMAIN kwargs THEN kwargs[key] ELSE default

_get_fake_quant_type(quant_type, kwargs) ==
    LET quant_bits == Get(kwargs, "quant_bits", 8)
    IN  IF quant_type = "abs_max"
        THEN FakeQuantAbsMax__init__(
                 quant_bits, Get(kwargs, "quant_on_weight", FALSE))
        ELSE IF quant_type = "moving_average_abs_max"
        THEN FakeQuantMovingAverage__init__(
                 Get(kwargs, "moving_rate", Rat(9, 10)), quant_bits)
        ELSE IF quant_type = "channel_wise_abs_max"
        THEN IF Get(kwargs, "channel_num", None) = None
             THEN Raise("AssertionError")
             ELSE FakeChannelWiseQuantDequantAbsMax__init__(
                      Get(kwargs, "channel_num", None), quant_bits,
                      Get(kwargs, "quant_axis", 0),
                      Get(kwargs, "quant_on_weight", FALSE))
        ELSE Raise("KeyError")

(* weight_quant_layer() / act_quant_layer(): a caller-supplied layer class *)
(* called without arguments                                                *)
Instantiate(layer_class) ==
    IF layer_class = "FakeQuantAbsMax" THEN FakeQuantAbsMax__init__(8, FALSE)
    ELSE FakeQuantMovingAverage__init__(Rat(9, 10), 8)

(* Variant: the activation path is given the weight path's arguments *)
QuantizedConv2D__init__act_as_weight(weight, weight_quantize_type, activation_quantize_type, weight_quant_layer, act_quant_layer) ==
    LET _conv2d_quant_axis == 0
        kwargs == [moving_rate     |-> Rat(9, 10),
                   quant_bits      |-> 8,
                   quant_on_weight |-> TRUE,
                   channel_num     |-> <<weight.shape[_conv2d_quant_axis + 1]>>,
                   quant_axis      |-> _conv2d_quant_axis]
        fqw == IF weight_quant_layer # None
               THEN Instantiate(weight_quant_layer[1])
               ELSE _get_fake_quant_type(weight_quantize_type, kwargs)
        fqi == IF act_quant_layer # None
               THEN Instantiate(act_quant_layer[1])
               ELSE _get_fake_quant_type(activation_quantize_type, kwargs)
    IN  IF fqw.raised # "" THEN Raise(fqw.raised)
        ELSE IF fqi.raised # "" THEN Raise(fqi.raised)
        ELSE Ok([cls                |-> "QuantizedConv2D",
                 training           |-> TRUE,
                 weight             |-> weight,
                 _fake_quant_weight |-> fqw.obj,
                 _fake_quant_input  |-> fqi.obj])

(* QuantizedConv2D.__init__ with weight_bits, activation_bits and          *)
(* moving_rate at their defaults and no pre-processing layer; weight is    *)
(* layer.weight.                                                           *)
QuantizedConv2D__init__(weight, weight_quantize_type, activation_quantize_type, weight_quant_layer, act_quant_layer) ==
    LET _conv2d_quant_axis == 0
        fqw == IF weight_quant_layer # None
               THEN Instantiate(weight_quant_layer[1])
               ELSE _get_fake_quant_type(weight_quantize_type,
                        [moving_rate     |-> Rat(9, 10),
                         quant_bits      |-> 8,
                         quant_on_weight |-> TRUE,
                         channel_num     |-> <<weight.shape[_conv2d_quant_axis + 1]>>,
                         quant_axis      |-> _conv2d_quant_axis])
        fqi == IF act_quant_layer # None
               THEN Instantiate(act_quant_layer[1])
               ELSE _get_fake_quant_type(activation_quantize_type,
                        [moving_rate     |-> Rat(9, 10),
                         quant_bits      |-> 8,
                         quant_on_weight |-> FALSE])
    IN  IF fqw.raised # "" THEN Raise(fqw.raised)
        ELSE IF fqi.raised # "" THEN Raise(fqi.raised)
        ELSE Ok([cls                |-> "QuantizedConv2D",
                 training           |-> TRUE,
                 weight             |-> weight,
                 _fake_quant_weight |-> fqw.obj,
                 _fake_quant_input  |-> fqi.obj])

(* QuantizedLinear.__init__, same defaults *)
QuantizedLinear__init__(weight, weight_quantize_type, activation_quantize_type, weight_quant_layer, act_quant_layer) ==
    LET _linear_quant_axis == 1
        fqw == IF weight_quant_layer # None
               THEN Instantiate(weight_quant_layer[1])
               ELSE _get_fake_quant_type(weight_quantize_type,
                        [moving_rate     |-> Rat(9, 10),
                         quant_bits      |-> 8,
                         quant_on_weight |-> TRUE,
                         channel_num     |-> <<weight.shape[_linear_quant_axis + 1]>>,
                         quant_axis      |-> _linear_quant_axis])
        fqi == IF act_quant_layer # None
               THEN Instantiate(act_quant_layer[1])
               ELSE _get_fake_quant_type(activation_quantize_type,
                        [moving_rate     |-> Rat(9, 10),
                         quant_bits      |-> 8,
                         quant_on_weight |-> FALSE])
    IN  IF fqw.raised # "" THEN Raise(fqw.raised)
        ELSE IF fqi.raised # "" THEN Raise(fqi.raised)
        ELSE Ok([cls                |-> "QuantizedLinear",
                 training           |-> TRUE,
                 weight             |-> weight,
                 _fake_quant_weight |-> fqw.obj,
                 _fake_quant_input  |-> fqi.obj])

(* Calling a fake-quant layer object runs the forward of its class *)
CallLayer(self, x) ==
    CASE self.cls = "FakeQuantMovingAverage" -> FakeQuantMovingAverage_forward(self, x)
      [] self.cls = "FakeQuantAbsMax" -> FakeQuantAbsMax_forward(self, x)
      [] self.cls = "FakeChannelWiseQuantDequantAbsMax" ->
             FakeChannelWiseQuantDequantAbsMax_forward(self, x)
      [] self.cls = "MovingAverageAbsMaxScale" -> MovingAverageAbsMaxScale_forward(self, x)

(* QuantizedConv2D.forward up to the call of core.ops.conv2d: out holds    *)
(* the two operands handed to it                                           *)
QuantizedConv2D_forward(self, x) ==
    LET qi == CallLayer(self._fake_quant_input, x)
        qw == CallLayer(self._fake_quant_weight, self.weight)
    IN  [self      |-> [self EXCEPT !._fake_quant_input = qi.self,
                                    !._fake_quant_weight = qw.self],
         out       |-> [quant_input |-> qi.out, quant_weight |-> qw.out],
         out_scale |-> qw.out_scale]

(* QuantizedLinear.forward up to the call of core.ops.matmul *)
QuantizedLinear_forward(self, x) ==
    LET qi == CallLayer(self._fake_quant_input, x)
        qw == CallLayer(self._fake_quant_weight, self.weight)
    IN  [self      |-> [self EXCEPT !._fake_quant_input = qi.self,
                                    !._fake_quant_weight = qw.self],
         out       |-> [quant_input |-> qi.out, quant_weight |-> qw.out],
         out_scale |-> qw.out_scale]

IsWrapper(l) == l.cls \in {"QuantizedConv2D", "QuantizedLinear"}

(* Layer.train() / Layer.eval(): set the flag on the layer and sublayers *)
SetTraining(l, b) ==
    IF IsWrapper(l)
    THEN [l EXCEPT !.training = b,
                   !._fake_quant_input.training = b,
                   !._fake_quant_weight.training = b]
    ELSE [l EXCEPT !.training = b]

----------------------------------------------------------------------------
(* Inputs *)

Rates == {Rat(9, 10), Rat(1, 2)}
QuantBits == {3, 8}
QuantTypes == {"abs_max", "moving_average_abs_max", "channel_wise_abs_max",
               "range_abs_max"}
Dims == {1, 2}

ExampleX == Tensor(<<4>>, <<R(-2), Zero, R(3), R(-1)>>)

(* element values: the largest magnitude negative, zero, and one half *)
Values == {R(-MaxAbs), Zero, Rat(1, 2)}

Inputs1D ==
    UNION {{Tensor(<<n>>, d) : d \in SeqsOf(Values, n)} : n \in 1..MaxLen}
        \cup {ExampleX}

Inputs2D ==
    UNION {{Tensor(<<sh[1], sh[2]>>, d) : d \in SeqsOf(Values, sh[1] * sh[2])} :
           sh \in Dims \X Dims}

Weights == {Tensor(<<2, 2>>, <<One, R(-2), Zero, Zero>>)}

(* <<quantize type, custom quant layer class or None>> for the activation *)
(* path: every type without a custom layer, and a custom layer given       *)
(* together with a type                                                    *)
ActQuantChoices ==
    {<<t, None>> : t \in QuantTypes}
        \cup {<<"channel_wise_abs_max", <<"FakeQuantAbsMax">>>>}

(* the same for the weight path *)
WeightQuantChoices ==
    {<<"abs_max", None>>, <<"channel_wise_abs_max", None>>,
     <<"range_abs_max", None>>, <<"abs_max", <<"FakeQuantAbsMax">>>>}

FactoryKwargs ==
    {[quant_bits |-> 8],
     [quant_bits |-> 8, quant_on_weight |-> TRUE],
     [quant_bits |-> 8, quant_on_weight |-> TRUE, channel_num |-> <<1>>,
      quant_axis |-> 1],
     [quant_bits |-> 8, quant_on_weight |-> FALSE, channel_num |-> <<1>>,
      quant_axis |-> 1]}

----------------------------------------------------------------------------
(* State machine *)

Init ==
    /\ layer = NoLayer
    /\ ctor = [op |-> "None"]
    /\ input = NoTensor
    /\ ret = NoTensor
    /\ out_scale = NoVar
    /\ raised = ""
    /\ calls = 0

(* A constructor call op(args) and its outcome c: the object, or the       *)
(* exception                                                               *)
Construct(op, args, c) ==
    /\ layer.cls = "None"
    /\ ctor' = [op |-> op, args |-> args]
    /\ layer' = c.obj
    /\ raised' = c.raised
    /\ UNCHANGED <<input, ret, out_scale, calls>>

NewFakeQuantMovingAverage ==
    \E rate \in Rates, bits \in QuantBits :
        Construct("FakeQuantMovingAverage",
                  [moving_rate |-> rate, quant_bits |-> bits],
                  FakeQuantMovingAverage__init__(rate, bits))

NewFakeQuantAbsMax ==
    \E bits \in QuantBits, w \in BOOLEAN :
        Construct("FakeQuantAbsMax",
                  [quant_bits |-> bits, quant_on_weight |-> w],
                  FakeQuantAbsMax__init__(bits, w))

NewFakeChannelWiseQuantDequantAbsMax ==
    \E c \in {None} \cup {<<n>> : n \in Dims}, bits \in QuantBits,
       a \in {0, 1}, w \in BOOLEAN :
        Construct("FakeChannelWiseQuantDequantAbsMax",
                  [channel_num |-> c, quant_bits |-> bits, quant_axis |-> a,
                   quant_on_weight |-> w],
                  FakeChannelWiseQuantDequantAbsMax__init__(c, bits, a, w))

NewMovingAverageAbsMaxScale ==
    \E rate \in Rates :
        Construct("MovingAverageAbsMaxScale", [moving_rate |-> rate],
                  MovingAverageAbsMaxScale__init__(rate))

GetFakeQuantType ==
    \E t \in QuantTypes, kw \in FactoryKwargs :
        Construct("_get_fake_quant_type", [quant_type |-> t, kwargs |-> kw],
                  _get_fake_quant_type(t, kw))

NewQuantizedConv2D ==
    \E w \in Weights, wq \in WeightQuantChoices, aq \in ActQuantChoices :
        Construct("QuantizedConv2D",
                  [weight |-> w, weight_quantize_type |-> wq[1],
                   activation_quantize_type |-> aq[1],
                   weight_quant_layer |-> wq[2], act_quant_layer |-> aq[2]],
                  QuantizedConv2D__init__(w, wq[1], aq[1], wq[2], aq[2]))

NewQuantizedLinear ==
    \E w \in Weights, wq \in WeightQuantChoices, aq \in ActQuantChoices :
        Construct("QuantizedLinear",
                  [weight |-> w, weight_quantize_type |-> wq[1],
                   activation_quantize_type |-> aq[1],
                   weight_quant_layer |-> wq[2], act_quant_layer |-> aq[2]],
                  QuantizedLinear__init__(w, wq[1], aq[1], wq[2], aq[2]))

(* A forward call on input x and its outcome r *)
Called(x, r) ==
    /\ calls < MaxCalls
    /\ calls' = calls + 1
    /\ input' = x
    /\ layer' = r.self
    /\ ret' = r.out
    /\ out_scale' = r.out_scale
    /\ raised' = ""
    /\ UNCHANGED ctor

ForwardFakeQuantMovingAverage ==
    /\ layer.cls = "FakeQuantMovingAverage"
    /\ \E x \in Inputs1D : Called(x, FakeQuantMovingAverage_forward(layer, x))

ForwardFakeQuantAbsMax ==
    /\ layer.cls = "FakeQuantAbsMax"
    /\ \E x \in Inputs1D : Called(x, FakeQuantAbsMax_forward(layer, x))

ForwardFakeChannelWiseQuantDequantAbsMax ==
    /\ layer.cls = "FakeChannelWiseQuantDequantAbsMax"
    /\ \E x \in Inputs2D :
          /\ x.shape[layer._quant_axis + 1] = layer._channel_num[1]
          /\ Called(x, FakeChannelWiseQuantDequantAbsMax_forward(layer, x))

ForwardMovingAverageAbsMaxScale ==
    /\ layer.cls = "MovingAverageAbsMaxScale"
    /\ \E x \in Inputs1D : Called(x, MovingAverageAbsMaxScale_forward(layer, x))

ForwardQuantizedConv2D ==
    /\ layer.cls = "QuantizedConv2D"
    /\ \E x \in Inputs1D : Called(x, QuantizedConv2D_forward(layer, x))

ForwardQuantizedLinear ==
    /\ layer.cls = "QuantizedLinear"
    /\ \E x \in Inputs1D : Called(x, QuantizedLinear_forward(layer, x))

Train ==
    /\ layer.cls # "None"
    /\ ~layer.training
    /\ layer' = SetTraining(layer, TRUE)
    /\ UNCHANGED <<ctor, input, ret, out_scale, raised, calls>>

Eval ==
    /\ layer.cls # "None"
    /\ layer.training
    /\ layer' = SetTraining(layer, FALSE)
    /\ UNCHANGED <<ctor, input, ret, out_scale, raised, calls>>

Next ==
    \/ NewFakeQuantMovingAverage
    \/ NewFakeQuantAbsMax
    \/ NewFakeChannelWiseQuantDequantAbsMax
    \/ NewMovingAverageAbsMaxScale
    \/ GetFakeQuantType
    \/ NewQuantizedConv2D
    \/ NewQuantizedLinear
    \/ ForwardFakeQuantMovingAverage
    \/ ForwardFakeQuantAbsMax
    \/ ForwardFakeChannelWiseQuantDequantAbsMax
    \/ ForwardMovingAverageAbsMaxScale
    \/ ForwardQuantizedConv2D
    \/ ForwardQuantizedLinear
    \/ Train
    \/ Eval

Spec == Init /\ [][Next]_vars

----------------------------------------------------------------------------
(* Properties *)

IsMovingAverage(l) ==
    l.cls \in {"FakeQuantMovingAverage", "MovingAverageAbsMaxScale"}

IsFakeQuant(l) ==
    l.cls \in {"FakeQuantMovingAverage", "FakeQuantAbsMax",
               "FakeChannelWiseQuantDequantAbsMax"}

(* y = round(clamp(x / s, -1, 1) * range) * s / range for a scale s > 0,   *)
(* stated without round(): y * range / s is an integer level within        *)
(* [-range, range] at distance at most 1/2 from clamp(x / s, -1, 1) * range *)
IsQuantOf(y, x, s, bit_length) ==
    LET range == R(BinCnt(bit_length))
        q == RDiv(RMul(y, range), s)
        t == RMul(RMax(RNeg(One), RMin(One, RDiv(x, s))), range)
    IN  /\ q[2] = 1
        /\ RLe(RAbs(q), range)
        /\ RLe(RMul(R(2), RAbs(RSub(q, t))), One)

(* the scale the latest forward used for element p *)
ScaleOf(p) ==
    IF layer.cls = "FakeChannelWiseQuantDequantAbsMax"
    THEN out_scale.val[ChannelOf(p, input.shape, layer._quant_axis) + 1]
    ELSE out_scale.val[1]

(* C1: a moving-average estimator starts with accum = state = 1, and every *)
(* training-mode forward on x replaces accum by moving_rate*accum +        *)
(* max(abs(x)), state by moving_rate*state + 1 and scale by their          *)
(* quotient, all computed from the values held before the call; the new    *)
(* scale is what MovingAverageAbsMaxScale returns and what                 *)
(* FakeQuantMovingAverage transforms x by.                                 *)
C1_TrainingUpdate ==
    [][ /\ (layer.cls = "None" /\ IsMovingAverage(layer')) =>
               (layer'._accum = <<One>> /\ layer'._state = <<One>>)
        /\ (IsMovingAverage(layer) /\ layer.training /\ calls' = calls + 1) =>
               LET m == MaxAbsOf(input'.data)
                   new_accum == RAdd(RMul(layer._moving_rate, layer._accum[1]), m)
                   new_state == RAdd(RMul(layer._moving_rate, layer._state[1]), One)
                   new_scale == RDiv(new_accum, new_state)
               IN  /\ layer'._accum = <<new_accum>>
                   /\ layer'._state = <<new_state>>
                   /\ layer'._scale = <<new_scale>>
                   /\ out_scale'.val = <<new_scale>>
                   /\ (layer.cls = "MovingAverageAbsMaxScale" =>
                          ret'.data = <<new_scale>>)
                   /\ (layer.cls = "FakeQuantMovingAverage" =>
                          \A p \in DOMAIN input'.data :
                              IsQuantOf(ret'.data[p], input'.data[p], new_scale,
                                        layer._quant_bits))
      ]_vars

(* two training calls with moving_rate 0.9 have been made, the inputs not  *)
(* all of max-abs 1                                                        *)
C1_Witness ==
    /\ layer.cls = "FakeQuantMovingAverage"
    /\ layer.training
    /\ layer._state = <<Rat(271, 100)>>
    /\ layer._accum # layer._state

(* C2: a forward call of a moving-average estimator in eval mode leaves    *)
(* scale, accum and state as they were, whatever the input, and the scale  *)
(* it uses is that unchanged scale.                                        *)
C2_EvalFreeze ==
    [][ (IsMovingAverage(layer) /\ ~layer.training /\ calls' = calls + 1) =>
            /\ layer'._scale = layer._scale
            /\ layer'._accum = layer._accum
            /\ layer'._state = layer._state
            /\ out_scale'.val = layer._scale
            /\ (layer.cls = "MovingAverageAbsMaxScale" =>
                   ret'.data = layer._scale)
            /\ (layer.cls = "FakeQuantMovingAverage" =>
                   \A p \in DOMAIN input'.data :
                       IsQuantOf(ret'.data[p], input'.data[p], layer._scale[1],
                                 layer._quant_bits))
      ]_vars

(* two calls were made, none of them in training mode, the latest on a     *)
(* non-zero input                                                          *)
C2_Witness ==
    /\ IsMovingAverage(layer)
    /\ ~layer.training
    /\ calls = 2
    /\ layer._state = <<One>>
    /\ RLt(Zero, MaxAbsOf(input.data))

C4_RoundTripBound ==
    (calls > 0 /\ IsFakeQuant(layer)) =>
        \A p \in DOMAIN input.data :
            (RLt(Zero, ScaleOf(p)) /\ RLe(RAbs(input.data[p]), ScaleOf(p))) =>
                RLe(RAbs(RSub(ret.data[p], input.data[p])),
                    RDiv(ScaleOf(p), R(BinCnt(layer._quant_bits))))

(* an element within the scale came out with a non-zero error *)
C4_Witness ==
    /\ layer.cls = "FakeQuantAbsMax"
    /\ calls > 0
    /\ \E p \in DOMAIN input.data :
           /\ RLe(RAbs(input.data[p]), ScaleOf(p))
           /\ ret.data[p] # input.data[p]

(* C5: every element whose scale is 0 comes out as 0 and the call raises   *)
(* nothing.                                                                *)
C5_ZeroScale ==
    (calls > 0 /\ IsFakeQuant(layer)) =>
        /\ raised = ""
        /\ \A p \in DOMAIN input.data :
               ScaleOf(p) = Zero => ret.data[p] = Zero

(* a channel-wise call on a tensor with an all-zero channel next to a      *)
(* non-zero one                                                            *)
C5_Witness ==
    /\ layer.cls = "FakeChannelWiseQuantDequantAbsMax"
    /\ calls > 0
    /\ Len(out_scale.val) = 2
    /\ out_scale.val[1] = Zero
    /\ out_scale.val[2] # Zero
    /\ Len(input.data) = 4

(* C6: after any forward of FakeQuantAbsMax, in either mode and whatever   *)
(* came before, the scale is max(abs(x)) of the latest input and the       *)
(* output is the transform of that input by that scale.                    *)
C6_AbsMaxStateless ==
    (calls > 0 /\ layer.cls = "FakeQuantAbsMax") =>
        LET m == MaxAbsOf(input.data)
        IN  /\ out_scale.val = <<m>>
            /\ ret = Tensor(input.shape,
                            [p \in DOMAIN input.data |->
                                ClipAndFakeQuantDequant(input.data[p], m,
                                                        layer._quant_bits)])

(* the third call of an eval-mode layer built with quant_on_weight, on a   *)
(* non-zero input                                                          *)
C6_Witness ==
    /\ layer.cls = "FakeQuantAbsMax"
    /\ ~layer.training
    /\ layer._scale # None
    /\ calls = 3
    /\ out_scale.val # <<Zero>>

(* C7: a FakeQuantAbsMax built with quant_on_weight starts with a          *)
(* persistent scale slot of 0 and after every forward call, the first      *)
(* included, the slot holds max(abs(x)) of that call's input; built        *)
(* without quant_on_weight it has no slot and each call writes its scale   *)
(* to a new, non-persistent variable.                                      *)
C7_SlotHoldsLastScale ==
    layer.cls = "FakeQuantAbsMax" =>
        IF layer._scale # None
        THEN IF calls = 0 THEN layer._scale = <<Zero>>
             ELSE /\ layer._scale = <<MaxAbsOf(input.data)>>
                  /\ out_scale.persistable
        ELSE calls > 0 => ~out_scale.persistable

(* C8: a channel-wise estimator with channel_num = C keeps a scale vector  *)
(* of length C, and after a forward on a tensor of size C along quant_axis *)
(* component i is the max(abs(x)) over the elements of index i along that  *)
(* axis, found here by walking rows and columns.                           *)
ChannelMaxAbs(x, quant_axis, i) ==
    LET rows == x.shape[1]
        cols == x.shape[2]
        At(r, c) == x.data[(r - 1) * cols + c]
    IN  IF quant_axis = 0
        THEN MaxAbsOf([c \in 1..cols |-> At(i, c)])
        ELSE MaxAbsOf([r \in 1..rows |-> At(r, i)])

C8_ChannelWiseScale ==
    layer.cls = "FakeChannelWiseQuantDequantAbsMax" =>
        /\ Len(layer._scale) = layer._channel_num[1]
        /\ calls > 0 =>
               /\ out_scale.val = layer._scale
               /\ \A i \in 1..layer._channel_num[1] :
                      layer._scale[i] =
                          ChannelMaxAbs(input, layer._quant_axis, i)

(* a 2x2 tensor quantized along axis 1 whose two columns have different,   *)
(* non-zero maxima                                                         *)
C8_Witness ==
    /\ layer.cls = "FakeChannelWiseQuantDequantAbsMax"
    /\ calls > 0
    /\ layer._quant_axis = 1
    /\ input.shape = <<2, 2>>
    /\ layer._scale[1] # layer._scale[2]
    /\ layer._scale[1] # Zero
    /\ layer._scale[2] # Zero

(* C9: a constructor call for a channel-wise estimator, direct or through  *)
(* _get_fake_quant_type, with quant_on_weight false or without channel_num *)
(* raises, leaves no layer object, and no forward call has been made; no   *)
(* channel-wise estimator exists without its scale slot.                   *)
C9_ConstructionRejected ==
    LET rejected == raised # "" /\ layer = NoLayer /\ calls = 0
    IN  /\ (/\ ctor.op = "FakeChannelWiseQuantDequantAbsMax"
            /\ (~ctor.args.quant_on_weight \/ ctor.args.channel_num = None))
               => rejected
        /\ (/\ ctor.op = "_get_fake_quant_type"
            /\ ctor.args.quant_type = "channel_wise_abs_max"
            /\ (\/ ~Get(ctor.args.kwargs, "quant_on_weight", FALSE)
                \/ Get(ctor.args.kwargs, "channel_num", None) = None))
               => rejected
        /\ layer.cls = "FakeChannelWiseQuantDequantAbsMax" =>
               (layer._scale # None /\ layer._channel_num # None)

(* the direct constructor was given a channel_num but not quant_on_weight  *)
(* and raised the assertion                                                *)
C9_Witness ==
    /\ ctor.op = "FakeChannelWiseQuantDequantAbsMax"
    /\ ~ctor.args.quant_on_weight
    /\ ctor.args.channel_num # None
    /\ raised = "AssertionError"
    /\ layer = NoLayer

(* C10: a QuantizedConv2D or QuantizedLinear constructor call with         *)
(* activation_quantize_type 'channel_wise_abs_max' and no act_quant_layer  *)
(* raises and leaves no wrapper object; no forward call has been made.     *)
C10_WrapperRejected ==
    (/\ ctor.op \in {"QuantizedConv2D", "QuantizedLinear"}
     /\ ctor.args.activation_quantize_type = "channel_wise_abs_max"
     /\ ctor.args.act_quant_layer = None)
        => (raised # "" /\ layer = NoLayer /\ calls = 0)

(* the weight path was valid, the activation path asked for channel-wise   *)
(* and the constructor raised the assertion                                *)
C10_Witness ==
    /\ ctor.op = "QuantizedConv2D"
    /\ ctor.args.weight_quantize_type = "channel_wise_abs_max"
    /\ ctor.args.weight_quant_layer = None
    /\ ctor.args.activation_quantize_type = "channel_wise_abs_max"
    /\ ctor.args.act_quant_layer = None
    /\ raised = "AssertionError"
    /\ layer = NoLayer

(* <<accum, state>> of a moving-average estimator after k training calls,  *)
(* counted from construction, on inputs whose max(abs(x)) is m every time  *)
RECURSIVE ConstantRun(_, _, _)
ConstantRun(m, moving_rate, k) ==
    IF k = 0 THEN <<One, One>>
    ELSE LET prev == ConstantRun(m, moving_rate, k - 1)
         IN  <<RAdd(RMul(moving_rate, prev[1]), m),
               RAdd(RMul(moving_rate, prev[2]), One)>>

(* the estimator l holds what construction followed by some number of      *)
(* training calls on inputs of max(abs(x)) = m leaves in it                *)
AfterConstantRun(l, m) ==
    \E k \in 0..MaxCalls :
        /\ <<l._accum[1], l._state[1]>> = ConstantRun(m, l._moving_rate, k)
        /\ l._scale[1] = IF k = 0 THEN Rat(1, 1000)
                         ELSE RDiv(l._accum[1], l._state[1])

(* a training call of FakeQuantMovingAverage that continues a run of calls  *)
(* on inputs of one and the same max(abs(x)), begun at construction        *)
ConstantStep ==
    /\ layer.cls = "FakeQuantMovingAverage"
    /\ layer.training
    /\ calls' = calls + 1
    /\ AfterConstantRun(layer, MaxAbsOf(input'.data))

Estimators(l) ==
    IF IsWrapper(l) THEN {l._fake_quant_input, l._fake_quant_weight}
    ELSE IF IsMovingAverage(l) \/ IsFakeQuant(l) THEN {l}
    ELSE {}

(* C12: in every reachable state of every estimator, alone or inside a     *)
(* wrapper, after any sequence of training and eval forward calls on any   *)
(* inputs, every component of the persisted scale is non-negative.         *)
C12_ScaleNonNegative ==
    \A e \in Estimators(layer) :
        e._scale # None =>
            \A i \in DOMAIN e._scale : RLe(Zero, e._scale[i])

(* an eval-mode channel-wise estimator was called more than once and a     *)
(* component of its scale comes from a negative element of the input       *)
C12_Witness ==
    /\ layer.cls = "FakeChannelWiseQuantDequantAbsMax"
    /\ ~layer.training
    /\ calls >= 2
    /\ \E p \in DOMAIN input.data :
           /\ RLt(input.data[p], Zero)
           /\ layer._scale[ChannelOf(p, input.shape, layer._quant_axis) + 1]
                  = RNeg(input.data[p])

============================================================================
